---- MODULE Spec2Model ----
(***************************************************************************)
(* Model of chat_agent.py: the transcript sanitizer _clean, the search     *)
(* tool semantic_search and the Streamlit turn handler that keeps the      *)
(* conversation in st.session_state.history.                               *)
(*                                                                         *)
(* Text is a sequence of one-character strings.  Three specifications      *)
(* share the variables: Spec (the chat session), SpecSearch (one call of   *)
(* semantic_search on an HTTP response) and SpecClean (_clean applied once *)
(* and twice to a text).                                                   *)
(***************************************************************************)
EXTENDS Integers, Sequences, FiniteSets, TLC

VARIABLES
  history,      \* st.session_state.history: sequence of [role, content]
  pc,           \* position of the script run: "idle" | "running" (inside Runner.run)
  prompt,       \* value of st.chat_input for the current rerun (<<>> models None / "")
  convo,        \* the list handed to Runner.run
  answer,       \* final_output of the last Runner.run that returned
  lastTurn,     \* how the last rerun ended: "none" | "ignored" | "ok" | "raised" | "aborted"
  runnerCalls,  \* number of Runner.run invocations in the session
  searchCalls,  \* number of semantic_search invocations in the current rerun
  toolOutcome,  \* outcome of the last semantic_search of the current rerun
  response,     \* HTTP response seen by semantic_search
  outcome,      \* "pending" | "returned" | "raised"
  results,      \* list returned by semantic_search
  raw,          \* input text of _clean
  cleaned,      \* _clean(raw)
  recleaned,    \* _clean(_clean(raw))
  cleanStage    \* 0: nothing applied, 1: cleaned computed, 2: recleaned computed

turnVars == <<history, pc, prompt, convo, answer, lastTurn, runnerCalls, searchCalls, toolOutcome>>
searchVars == <<response, outcome, results>>
cleanVars == <<raw, cleaned, recleaned, cleanStage>>
vars == <<turnVars, searchVars, cleanVars>>

---------------------------------------------------------------------------
(* Bounds *)

MaxRuns == 3          \* Runner.run invocations in one session
MaxSearchCalls == 2   \* semantic_search calls the agent makes in one turn
MaxItems == 2         \* entries in a response's "results" list
MaxTokens == 3        \* tokens in a short sanitizer input
PadSlack == 3         \* long sanitizer inputs carry CLEAN_CAP-PadSlack..CLEAN_CAP filler characters

---------------------------------------------------------------------------
(* Text: sequences of one-character strings *)

WhiteSpace == {" ", "\n"}

IsSpace(c) == c \in WhiteSpace

\* t[i..] starts with the literal lit
HasAt(t, i, lit) ==
  /\ i + Len(lit) - 1 <= Len(t)
  /\ \A k \in 1..Len(lit) : t[i + k - 1] = lit[k]

\* \S matches at position i
NonSpaceAt(t, i) == i <= Len(t) /\ ~IsSpace(t[i])

HTTP == <<"h", "t", "t", "p", ":", "/", "/">>
HTTPS == <<"h", "t", "t", "p", "s", ":", "/", "/">>
WWW == <<"w", "w", "w", ".">>

\* the pattern https?://\S+|www\.\S+ matches starting at position i
UrlStartsAt(t, i) ==
  \/ HasAt(t, i, HTTPS) /\ NonSpaceAt(t, i + Len(HTTPS))
  \/ HasAt(t, i, HTTP) /\ NonSpaceAt(t, i + Len(HTTP))
  \/ HasAt(t, i, WWW) /\ NonSpaceAt(t, i + Len(WWW))

\* Both alternatives of the pattern end in a greedy \S+, so a match runs from
\* its first position to the end of the whitespace-free run it starts in, and
\* re.sub takes the leftmost match of a run: position j is removed iff a match
\* starts at some i <= j with no whitespace in i..j.

Flagged(p) == p[1]

\* the characters of a sequence of <<keep, character>> pairs
Unflag(ps) == [i \in 1..Len(ps) |-> ps[i][2]]

\* re.sub(r"https?://\S+|www\.\S+", "", text)
StripUrls(t) ==
  LET starts == {i \in 1..Len(t) : UrlStartsAt(t, i)}
      spaces == {i \in 1..Len(t) : IsSpace(t[i])}
      matched(j) == \E i \in starts : i <= j /\ \A k \in spaces : k < i \/ k > j
  IN Unflag(SelectSeq([j \in 1..Len(t) |-> <<~matched(j), t[j]>>], Flagged))

\* re.sub(r"\s+", " ", text): the first character of every whitespace run
\* becomes one space, the rest of the run is dropped
CollapseSpace(t) ==
  Unflag(SelectSeq([j \in 1..Len(t) |->
                      <<~IsSpace(t[j]) \/ j = 1 \/ ~IsSpace(t[j - 1]),
                        IF IsSpace(t[j]) THEN " " ELSE t[j]>>], Flagged))

\* str.strip()
Strip(t) ==
  LET lead == Cardinality({i \in 1..Len(t) : \A k \in 1..i : IsSpace(t[k])})
      trail == Cardinality({i \in 1..Len(t) : \A k \in i..Len(t) : IsSpace(t[k])})
  IN IF lead = Len(t) THEN <<>> ELSE SubSeq(t, lead + 1, Len(t) - trail)

CLEAN_CAP == 1000

\* text[:n]
Prefix(t, n) == IF Len(t) <= n THEN t ELSE SubSeq(t, 1, n)

\* the text before the cut: URLs removed, whitespace compressed and trimmed
Compressed(t) == Strip(CollapseSpace(StripUrls(t)))

\* a sanitizer that compresses whitespace before it removes URLs
CleanUrlsLast(t) == Prefix(StripUrls(Strip(CollapseSpace(t))), CLEAN_CAP)

_clean(t) == Prefix(Compressed(t), CLEAN_CAP)

---------------------------------------------------------------------------
(* Sanitizer inputs *)

Filler(n) == [i \in 1..n |-> "a"]

Tokens == {<<" ">>, <<"\n">>, <<"b">>, <<".">>, WWW, HTTP, HTTPS}

RECURSIVE TokenTexts(_)
\* the concatenations of at most n tokens
TokenTexts(n) ==
  IF n = 0 THEN {<<>>}
  ELSE LET shorter == TokenTexts(n - 1)
       IN shorter \cup {tx \o tk : tx \in shorter, tk \in Tokens}

Heads == {<<>>, <<" ">>, <<"b", " ">>, WWW \o <<"b", " ">>}

Tails == {<<>>, <<" ">>, <<" ", "b">>, <<" ", " ", "b">>, <<"b", " ", "c">>,
          <<" ">> \o WWW \o <<"b">>, HTTP \o <<"b", "c">>}

\* texts whose length is around the cut position
LongTexts ==
  {h \o Filler(n) \o tl : h \in Heads, n \in (CLEAN_CAP - PadSlack)..CLEAN_CAP, tl \in Tails}

CleanInputs == TokenTexts(MaxTokens) \cup LongTexts

---------------------------------------------------------------------------
(* The search endpoint's response *)

\* JSON values of the fields semantic_search reads.  dict.get yields None for
\* a missing key, so a missing field and a null field are the same value.
NoId == [type |-> "none", val |-> ""]
IdStr(x) == [type |-> "str", val |-> x]
NoText == [type |-> "none", val |-> <<>>]
TextStr(t) == [type |-> "str", val |-> t]
TextNum == [type |-> "num", val |-> <<>>]   \* a non-zero number where a string is expected

\* Python truthiness of the value item.get("_id")
IdTruthy(v) == v.type = "str" /\ v.val # ""

\* Python truthiness of the value item.get("transcript")
TextTruthy(v) == v.type = "num" \/ (v.type = "str" /\ v.val # <<>>)

IdValues == {NoId, IdStr(""), IdStr("a"), IdStr("b")}

TranscriptValues ==
  {NoText, TextNum, TextStr(<<>>), TextStr(<<" ">>),
   TextStr(<<"x", " ", " ", "y">>), TextStr(WWW \o <<"x">>)}

\* an entry of "results": a JSON object, or a value that is no object
Objects == [isObject : {TRUE}, _id : IdValues, transcript : TranscriptValues]
NonObject == [isObject |-> FALSE, _id |-> NoId, transcript |-> NoText]
Items == Objects \cup {NonObject}

RECURSIVE ItemLists(_)
\* the lists of at most n items
ItemLists(n) ==
  IF n = 0 THEN {<<>>}
  ELSE LET shorter == ItemLists(n - 1)
       IN shorter \cup {Append(l, it) : l \in shorter, it \in Items}

\* kind: what client.get / raise_for_status / r.json() do;
\* tag: the value under "results" of a body that is a JSON object
FailedResponse(kind) == [kind |-> kind, tag |-> "absent", items |-> <<>>]

Responses(n) ==
  {FailedResponse(k) : k \in {"network_error", "http_error", "bad_json", "not_object"}}
  \cup {[kind |-> "ok", tag |-> "absent", items |-> <<>>],
        [kind |-> "ok", tag |-> "null", items |-> <<>>]}
  \cup {[kind |-> "ok", tag |-> "list", items |-> l] : l \in ItemLists(n)}

---------------------------------------------------------------------------
(* semantic_search *)

Returned(rs) == [outcome |-> "returned", results |-> rs]
Raised == [outcome |-> "raised", results |-> <<>>]

\* results.insert(0, ...) in place of results.append(...)
ResultsPrepend(acc, item) ==
  <<[id |-> item._id.val, text |-> _clean(item.transcript.val)]>> \o acc

\* results.append({"id": _id, "text": _clean(text)})
ResultsAppend(acc, item) ==
  Append(acc, [id |-> item._id.val, text |-> _clean(item.transcript.val)])

RECURSIVE SearchLoop(_, _)
\* for item in data: ...  with the results collected so far in acc
SearchLoop(items, acc) ==
  IF items = <<>> THEN Returned(acc)
  ELSE LET item == Head(items) IN
       IF ~item.isObject THEN Raised                       \* item.get: AttributeError
       ELSE IF IdTruthy(item._id) /\ TextTruthy(item.transcript)
            THEN IF item.transcript.type # "str" THEN Raised   \* re.sub in _clean: TypeError
                 ELSE SearchLoop(Tail(items), ResultsAppend(acc, item))
            ELSE SearchLoop(Tail(items), acc)

semantic_search(resp) ==
  IF resp.kind # "ok" THEN Returned(<<>>)          \* except Exception: return []
  ELSE IF resp.tag = "absent" THEN Returned(<<>>)  \* .get("results", []) 
  ELSE IF resp.tag = "null" THEN Raised            \* for item in None: TypeError
  ELSE SearchLoop(resp.items, <<>>)

---------------------------------------------------------------------------
(* The Streamlit turn handler *)

UserTurn(p) == [role |-> "user", content |-> p]
AssistantTurn(a) == [role |-> "assistant", content |-> a]

\* values st.chat_input can hand to the script; <<>> stands for None and ""
Prompts == {<<>>, <<" ">>, <<"h", "i">>}

\* values of Runner.run(...).final_output
Answers == {<<"o", "k">>, <<"n", "o">>}

\* str.strip() leaves nothing
IsBlank(p) == Strip(p) = <<>>

\* if prompt:
PromptTruthy(p) == Len(p) > 0

\* convo built from the new entry alone
BuildConvoPromptOnly(h, p) == <<UserTurn(p)>>

\* st.session_state.history + [{"role": "user", "content": prompt}]
BuildConvo(h, p) == h \o <<UserTurn(p)>>

\* history assigned the new pair in place of being extended
PersistOverwrite(h, p, a) == <<UserTurn(p), AssistantTurn(a)>>

\* only the answer is recorded
PersistAnswerOnly(h, p, a) == Append(h, AssistantTurn(a))

\* st.session_state.history.extend([user entry, assistant entry])
Persist(h, p, a) == h \o <<UserTurn(p), AssistantTurn(a)>>

\* the responses a tool call inside a turn may meet
ToolResponses == Responses(1)

\* a handler that records the user entry before it calls Runner.run
SubmitPromptEager ==
  /\ pc = "idle"
  /\ runnerCalls < MaxRuns
  /\ \E p \in Prompts :
       /\ PromptTruthy(p)
       /\ prompt' = p
       /\ convo' = BuildConvo(history, p)
       /\ history' = Append(history, UserTurn(p))
  /\ pc' = "running"
  /\ runnerCalls' = runnerCalls + 1
  /\ searchCalls' = 0
  /\ toolOutcome' = "none"
  /\ lastTurn' = "none"
  /\ answer' = <<>>
  /\ UNCHANGED <<searchVars, cleanVars>>

\* a rerun with a truthy prompt: convo is built and Runner.run is entered
SubmitPrompt ==
  /\ pc = "idle"
  /\ runnerCalls < MaxRuns
  /\ \E p \in Prompts :
       /\ PromptTruthy(p)
       /\ prompt' = p
       /\ convo' = BuildConvo(history, p)
  /\ pc' = "running"
  /\ runnerCalls' = runnerCalls + 1
  /\ searchCalls' = 0
  /\ toolOutcome' = "none"
  /\ lastTurn' = "none"
  /\ answer' = <<>>
  /\ UNCHANGED <<history, searchVars, cleanVars>>

\* a rerun with a falsy prompt: the if body is skipped, the history is rendered
RerunWithoutPrompt ==
  /\ pc = "idle"
  /\ \E p \in Prompts :
       /\ ~PromptTruthy(p)
       /\ prompt' = p
  /\ convo' = <<>>
  /\ answer' = <<>>
  /\ searchCalls' = 0
  /\ toolOutcome' = "none"
  /\ lastTurn' = "ignored"
  /\ UNCHANGED <<history, pc, runnerCalls, searchVars, cleanVars>>

\* inside Runner.run the agent calls the semantic_search tool
AgentCallsTool ==
  /\ pc = "running"
  /\ searchCalls < MaxSearchCalls
  /\ \E r \in ToolResponses : toolOutcome' = semantic_search(r).outcome
  /\ searchCalls' = searchCalls + 1
  /\ UNCHANGED <<history, pc, prompt, convo, answer, lastTurn, runnerCalls,
                 searchVars, cleanVars>>

\* Runner.run returns; the pair is persisted and the script renders
RunnerReturns ==
  /\ pc = "running"
  /\ \E a \in Answers :
       /\ answer' = a
       /\ history' = Persist(history, prompt, a)
  /\ pc' = "idle"
  /\ lastTurn' = "ok"
  /\ UNCHANGED <<prompt, convo, runnerCalls, searchCalls, toolOutcome,
                 searchVars, cleanVars>>

\* Runner.run raises; the exception leaves the script before the extend
RunnerRaises ==
  /\ pc = "running"
  /\ pc' = "idle"
  /\ lastTurn' = "raised"
  /\ UNCHANGED <<history, prompt, convo, answer, runnerCalls, searchCalls,
                 toolOutcome, searchVars, cleanVars>>

\* the script run is stopped while Runner.run is in flight
TurnAborted ==
  /\ pc = "running"
  /\ pc' = "idle"
  /\ lastTurn' = "aborted"
  /\ UNCHANGED <<history, prompt, convo, answer, runnerCalls, searchCalls,
                 toolOutcome, searchVars, cleanVars>>

---------------------------------------------------------------------------
(* One call of semantic_search *)

CallSemanticSearch ==
  /\ outcome = "pending"
  /\ LET r == semantic_search(response) IN
       /\ outcome' = r.outcome
       /\ results' = r.results
  /\ UNCHANGED <<response, turnVars, cleanVars>>

(* _clean applied to a text, and to its own output *)

Sanitize ==
  /\ cleanStage = 0
  /\ cleaned' = _clean(raw)
  /\ cleanStage' = 1
  /\ UNCHANGED <<raw, recleaned, turnVars, searchVars>>

SanitizeAgain ==
  /\ cleanStage = 1
  /\ recleaned' = _clean(cleaned)
  /\ cleanStage' = 2
  /\ UNCHANGED <<raw, cleaned, turnVars, searchVars>>

---------------------------------------------------------------------------
(* Specifications *)

TurnInit ==
  /\ history = <<>>
  /\ pc = "idle"
  /\ prompt = <<>>
  /\ convo = <<>>
  /\ answer = <<>>
  /\ lastTurn = "none"
  /\ runnerCalls = 0
  /\ searchCalls = 0
  /\ toolOutcome = "none"

SearchIdle ==
  /\ response = FailedResponse("network_error")
  /\ outcome = "returned"
  /\ results = <<>>

CleanIdle ==
  /\ raw = <<>>
  /\ cleaned = <<>>
  /\ recleaned = <<>>
  /\ cleanStage = 2

Init == TurnInit /\ SearchIdle /\ CleanIdle

Next ==
  \/ SubmitPrompt
  \/ RerunWithoutPrompt
  \/ AgentCallsTool
  \/ RunnerReturns
  \/ RunnerRaises
  \/ TurnAborted

Spec == Init /\ [][Next]_vars

InitSearch ==
  /\ TurnInit
  /\ CleanIdle
  /\ response \in Responses(MaxItems)
  /\ outcome = "pending"
  /\ results = <<>>

NextSearch == CallSemanticSearch

SpecSearch == InitSearch /\ [][NextSearch]_vars

InitClean ==
  /\ TurnInit
  /\ SearchIdle
  /\ raw \in CleanInputs
  /\ cleaned = <<>>
  /\ recleaned = <<>>
  /\ cleanStage = 0

NextClean == Sanitize \/ SanitizeAgain

SpecClean == InitClean /\ [][NextClean]_vars

---------------------------------------------------------------------------
(* Properties of the turn handler (Spec) *)

\* C1: a successful turn (Runner.run returned an answer) leaves the history
\* equal to the old history followed by one user entry with the prompt and one
\* assistant entry with the answer: two entries longer, old entries untouched.
C1_SuccessfulTurnAppendsPair ==
  [][(pc = "running" /\ lastTurn' = "ok") =>
       /\ history' = history \o <<UserTurn(prompt), AssistantTurn(answer')>>
       /\ Len(history') = Len(history) + 2
       /\ \A i \in 1..Len(history) : history'[i] = history[i]]_vars

C1_Witness ==
  /\ pc = "idle"
  /\ lastTurn = "ok"
  /\ Len(history) >= 4
  /\ history[Len(history)] = AssistantTurn(answer)

\* C2: whenever Runner.run is in flight, the sequence it was given is the
\* stored history (still as it stood before the turn) followed by one user
\* entry with the prompt; no step into or inside the reasoning step changes
\* the stored history.
C2_ConvoIsHistoryPlusPrompt ==
  [][pc' = "running" =>
       /\ convo' = history \o <<UserTurn(prompt')>>
       /\ history' = history]_vars

C2_Witness ==
  /\ pc = "running"
  /\ Len(history) >= 2
  /\ Len(convo) = Len(history) + 1
  /\ searchCalls >= 1

\* C6: a rerun whose prompt is empty or only whitespace is ignored: the
\* history is unchanged, Runner.run is not entered and no search is issued.
C6_BlankPromptIgnored ==
  [][(pc = "idle" /\ IsBlank(prompt')) =>
       /\ history' = history
       /\ pc' = "idle"
       /\ runnerCalls' = runnerCalls
       /\ searchCalls' = 0]_vars

\* C7: when a turn ends because Runner.run raised or the run was aborted, the
\* history is the history from before the turn: the sequence given to
\* Runner.run without its last (user) entry.
C7_FailedTurnAppendsNothing ==
  [][(pc = "running" /\ lastTurn' \in {"raised", "aborted"}) =>
       /\ history' = history
       /\ history' = SubSeq(convo, 1, Len(convo) - 1)]_vars

C7_Witness ==
  /\ pc = "idle"
  /\ lastTurn = "raised"
  /\ searchCalls >= 1
  /\ Len(history) >= 2
  /\ Len(convo) = Len(history) + 1

\* C10: in every reachable state the history has even length and its roles
\* alternate user, assistant, starting with user; a user entry holds a
\* submitted prompt and an assistant entry an answer of Runner.run, never a
\* tool call or a search result.
C10_RolesAlternate ==
  /\ Len(history) % 2 = 0
  /\ \A i \in 1..Len(history) :
       IF i % 2 = 1
       THEN history[i].role = "user" /\ history[i].content \in Prompts
       ELSE history[i].role = "assistant" /\ history[i].content \in Answers

C10_Witness ==
  /\ pc = "idle"
  /\ lastTurn = "aborted"
  /\ Len(history) >= 4

---------------------------------------------------------------------------
(* Properties of semantic_search (SpecSearch) *)

ResultIds == [i \in 1..Len(results) |-> results[i].id]

HasStringId(item) == item.isObject /\ item._id.type = "str"

\* the ids of the response's entries, in the order the endpoint sent them
ResponseIds ==
  LET withId == SelectSeq(response.items, HasStringId)
  IN [i \in 1..Len(withId) |-> withId[i]._id.val]

RECURSIVE IsSubseq(_, _)
\* a is b with some elements left out
IsSubseq(a, b) ==
  IF a = <<>> THEN TRUE
  ELSE IF b = <<>> THEN FALSE
  ELSE IF Head(a) = Head(b) THEN IsSubseq(Tail(a), Tail(b))
  ELSE IsSubseq(a, Tail(b))

\* a search failure: transport error, non-2xx status, or a malformed body
\* (unparsable, not an object, or "results" not a list of objects)
SearchFails(r) ==
  \/ r.kind # "ok"
  \/ r.tag = "null"
  \/ \E i \in 1..Len(r.items) : ~r.items[i].isObject

\* C3: the returned list holds no two entries with the same id.
C3_NoDuplicateIds ==
  outcome = "returned" =>
    \A i, j \in 1..Len(results) : i < j => results[i].id # results[j].id

\* C4: on every kind of search failure semantic_search returns the empty list
\* and raises nothing.
C4_FailureReturnsEmptyList ==
  (outcome # "pending" /\ SearchFails(response)) =>
    (outcome = "returned" /\ results = <<>>)

\* C5: every returned entry has a non-empty id and a non-empty text.
C5_EntriesNonEmpty ==
  outcome = "returned" =>
    \A i \in 1..Len(results) : results[i].id # "" /\ results[i].text # <<>>

\* C8: the ids of the returned list are a subsequence of the ids of the
\* response's entries: nothing is reordered and nothing is added.
C8_IdsAreSubsequence ==
  outcome = "returned" => IsSubseq(ResultIds, ResponseIds)

C8_Witness ==
  /\ outcome = "returned"
  /\ Len(results) = 2
  /\ results[1].id # results[2].id
  /\ ResponseIds = ResultIds

---------------------------------------------------------------------------
(* Properties of _clean (SpecClean) *)

\* the cut at CLEAN_CAP, applied to the text itself, falls inside a URL
SplitsUrl(t) ==
  /\ Len(t) > CLEAN_CAP
  /\ \E i \in 1..CLEAN_CAP :
       UrlStartsAt(t, i) /\ \A k \in i..(CLEAN_CAP + 1) : ~IsSpace(t[k])

\* the compressed text is longer than the cap and its last kept character is a space
CutAtSpace(t) ==
  LET c == Compressed(t)
  IN Len(c) > CLEAN_CAP /\ c[CLEAN_CAP] = " "

\* C9 as stated: _clean(_clean(s)) = _clean(s) for every s that is not cut
\* inside a URL, the texts cut at a space included.
C9_Idempotent ==
  (cleanStage = 2 /\ ~SplitsUrl(raw)) => recleaned = cleaned

\* C9 amended: _clean(_clean(s)) = _clean(s) for every s that is not cut
\* inside a URL, except the texts whose compressed form is longer than the cap
\* with a space as the last kept character; for those the second application
\* removes that trailing space.
C9_IdempotentUnlessCutAtSpace ==
  (cleanStage = 2 /\ ~SplitsUrl(raw)) =>
    IF CutAtSpace(raw)
    THEN recleaned = SubSeq(cleaned, 1, Len(cleaned) - 1)
    ELSE recleaned = cleaned

C9_Witness ==
  /\ cleanStage = 2
  /\ ~SplitsUrl(raw)
  /\ ~CutAtSpace(raw)
  /\ Len(Compressed(raw)) > CLEAN_CAP
  /\ Len(cleaned) = CLEAN_CAP
  /\ \E i \in 1..Len(cleaned) : cleaned[i] = " "
  /\ recleaned = cleaned

====
